---- MODULE Spec2Model ----
(***************************************************************************)
(* Interview-session state machine and scoring pipeline of main.py:        *)
(* start_interview, question_page, stt_endpoint, immediate_result and      *)
(* generate_report_api over the Interview / Answer / Score / Report tables *)
(* of models.py, with the text-generation collaborator (ollama.chat), the  *)
(* transcription collaborator (WHISPER_MODEL.transcribe) and the clock as  *)
(* nondeterministic inputs.                                                *)
(***************************************************************************)
EXTENDS Integers, Sequences, FiniteSets, TLC

(***************************************************************************)
(* Bounds of the exploration.                                              *)
(***************************************************************************)
MaxInterviews == 1
MaxScores == 2
MaxReports == 2

(***************************************************************************)
(* Program constants.                                                      *)
(***************************************************************************)
QuestionCount == 15
FallbackMaxScore == 5
DefaultMaxScore == 5
FallbackScoreCap == 5
WordsPerPoint == 20

(***************************************************************************)
(* Python values.  A str is either an atomic literal (PyStr) or, for the   *)
(* transcripts whose words are counted, a sequence of characters (PyText). *)
(* A dict keeps its keys in insertion order.                               *)
(***************************************************************************)
PyNone == [t |-> "None"]
PyInt(n) == [t |-> "int", n |-> n]
PyStr(s) == [t |-> "str", s |-> s]
PyText(cs) == [t |-> "str", chars |-> cs]
PyList(xs) == [t |-> "list", items |-> xs]
PyDict(ks, d) == [t |-> "dict", keys |-> ks, d |-> d]

\* The outcome of evaluating a Python expression: a value or a raised exception.
Ok(v) == [exc |-> "none", val |-> v]
Raise(e) == [exc |-> e, val |-> PyNone]

Range(s) == {s[i] : i \in DOMAIN s}

\* d.get(key, default) of a dict
py_get(v, key, default) ==
    IF key \in Range(v.keys) THEN v.d[key] ELSE default

\* Python truthiness, as "x or y" tests it
py_truthy(v) ==
    CASE v.t = "None" -> FALSE
      [] v.t = "int" -> v.n # 0
      [] v.t = "str" -> IF "chars" \in DOMAIN v THEN v.chars # <<>> ELSE v.s # ""
      [] v.t = "list" -> v.items # <<>>
      [] v.t = "dict" -> v.keys # <<>>

\* len(v)
py_len(v) ==
    CASE v.t = "list" -> Ok(Len(v.items))
      [] v.t = "dict" -> Ok(Len(v.keys))
      [] v.t = "str" -> Ok(IF "chars" \in DOMAIN v THEN Len(v.chars) ELSE 1)
      [] OTHER -> Raise("TypeError")

\* v[i] for an integer i: list indexing with Python's negative indices
py_index(v, i) ==
    CASE v.t = "list" ->
           LET n == Len(v.items) IN
           IF 0 <= i /\ i < n THEN Ok(v.items[i + 1])
           ELSE IF -n <= i /\ i < 0 THEN Ok(v.items[n + i + 1])
           ELSE Raise("IndexError")
      [] v.t = "dict" -> Raise("KeyError")
      [] v.t = "str" -> IF i = 0 \/ i = -1 THEN Ok(v) ELSE Raise("IndexError")
      [] OTHER -> Raise("TypeError")

\* v[key] for a string key
py_item(v, key) ==
    IF v.t = "dict"
    THEN IF key \in Range(v.keys) THEN Ok(v.d[key]) ELSE Raise("KeyError")
    ELSE Raise("TypeError")

\* str(v) inside an f-string, for the values a skill list holds
py_format(v) ==
    CASE v.t = "str" -> v.s
      [] v.t = "int" -> ToString(v.n)
      [] OTHER -> "None"

(***************************************************************************)
(* JSON text: the content a collaborator returns and the Text column       *)
(* Interview.questions holds.  An object is its sequence of key/value      *)
(* pairs as written; NotJson is any text json.loads rejects.               *)
(***************************************************************************)
NotJson == [k |-> "bad"]
JNull == [k |-> "null"]
JNum(n) == [k |-> "num", n |-> n]
JStr(s) == [k |-> "str", s |-> s]
JArr(xs) == [k |-> "arr", items |-> xs]
JObj(ps) == [k |-> "obj", pairs |-> ps]

\* the keys of an object in order of first occurrence
RECURSIVE FirstKeys(_)
FirstKeys(ps) ==
    IF ps = <<>> THEN <<>>
    ELSE LET front == FirstKeys(SubSeq(ps, 1, Len(ps) - 1))
             key == ps[Len(ps)][1]
         IN IF key \in Range(front) THEN front ELSE Append(front, key)

\* the value of the last pair with this key
LastValue(ps, key) ==
    LET at == {i \in DOMAIN ps : ps[i][1] = key}
    IN ps[CHOOSE i \in at : \A j \in at : j <= i][2]

RECURSIVE json_decode(_)
json_decode(j) ==
    CASE j.k = "null" -> PyNone
      [] j.k = "num" -> PyInt(j.n)
      [] j.k = "str" -> PyStr(j.s)
      [] j.k = "arr" -> PyList([i \in DOMAIN j.items |-> json_decode(j.items[i])])
      [] j.k = "obj" ->
           LET ks == FirstKeys(j.pairs)
           IN PyDict(ks, [key \in Range(ks) |-> json_decode(LastValue(j.pairs, key))])

json_loads(text) ==
    IF text.k = "bad" THEN Raise("JSONDecodeError") ELSE Ok(json_decode(text))

RECURSIVE json_dumps(_)
json_dumps(v) ==
    CASE v.t = "None" -> JNull
      [] v.t = "int" -> JNum(v.n)
      [] v.t = "str" -> JStr(v.s)
      [] v.t = "list" -> JArr([i \in DOMAIN v.items |-> json_dumps(v.items[i])])
      [] v.t = "dict" ->
           JObj([i \in DOMAIN v.keys |-> <<v.keys[i], json_dumps(v.d[v.keys[i]])>>])

(***************************************************************************)
(* The environment: callers, the résumé collection, and what the           *)
(* collaborators may answer.                                               *)
(***************************************************************************)
Users == {1, 2, 3}
InterviewTypes == {"technical"}

ResumeDoc(u, skills) ==
    PyDict(<<"user_id", "skills">>,
           [key \in {"user_id", "skills"} |->
               IF key = "user_id" THEN PyInt(u) ELSE PyList(skills)])
ResumeDocNoSkills(u) ==
    PyDict(<<"user_id">>, [key \in {"user_id"} |-> PyInt(u)])

\* The résumé documents the collection may hold: user 3 has none.
ResumeCollections ==
    { [u \in Users |->
          CASE u = 1 -> ResumeDoc(1, <<PyStr("Python"), PyStr("Sql")>>)
            [] u = 2 -> ResumeDoc(2, <<>>)
            [] OTHER -> PyNone],
      [u \in Users |->
          CASE u = 1 -> ResumeDoc(1, <<PyStr("Python")>>)
            [] u = 2 -> ResumeDocNoSkills(2)
            [] OTHER -> PyNone] }

\* ollama.chat: raises, or returns a response whose message content is a text
ChatRaises == [raises |-> TRUE, content |-> NotJson]
ChatReturns(text) == [raises |-> FALSE, content |-> text]

QItem(skill, question, max_score) ==
    JObj(<< <<"skill", JStr(skill)>>, <<"question", JStr(question)>>,
            <<"max_score", JNum(max_score)>> >>)

\* one well-formed question
OneQuestion == JArr(<< QItem("Sql", "Q2", 1) >>)
\* two well-formed questions; the first has no skill and no max_score
TwoQuestions ==
    JArr(<< JObj(<< <<"question", JStr("Q1")>> >>), QItem("Sql", "Q2", 1) >>)
\* the same question text twice
SameQuestionTwice ==
    JArr(<< QItem("Python", "Q1", 5), QItem("Sql", "Q1", 5) >>)
\* the second item has no "question" key
SecondLacksQuestion ==
    JArr(<< QItem("Python", "Q1", 5), JObj(<< <<"skill", JStr("Sql")>> >>) >>)

\* what the collaborator may answer to the question-generation prompt
QuestionReplies ==
    { ChatRaises,
      ChatReturns(NotJson),
      ChatReturns(TwoQuestions),
      ChatReturns(SameQuestionTwice),
      ChatReturns(SecondLacksQuestion),
      \* valid JSON that is not an array
      ChatReturns(JNum(7)),
      ChatReturns(JArr(<<>>)) }

VARIABLES
    resume_collection,  \* user id -> résumé document or None (MongoDB)
    interviews,         \* table interviews: row i has id i
    answers,            \* table answers, in primary-key order
    scores,             \* table scores, in primary-key order
    reports,            \* table reports, in primary-key order
    clock,              \* the last value datetime.utcnow() returned, in seconds
    submissions,        \* history: the submissions stt_endpoint completed
    calls,              \* the stt_endpoint requests being served
    last                \* the last request and its response

vars == <<resume_collection, interviews, answers, scores, reports, clock,
          submissions, calls, last>>

db == <<interviews, answers, scores, reports>>

Response(op, caller, iid, idx, status, body) ==
    [op |-> op, caller |-> caller, interview_id |-> iid, q_index |-> idx,
     status |-> status, body |-> body]

NoBody == [none |-> TRUE]

\* the requests stt_endpoint may be serving at the same time
Calls == {1, 2}
Idle == [pc |-> "idle"]

InitIn(collections) ==
    /\ resume_collection \in collections
    /\ interviews = <<>>
    /\ answers = <<>>
    /\ scores = <<>>
    /\ reports = <<>>
    /\ clock = 0
    /\ submissions = <<>>
    /\ calls = [c \in Calls |-> Idle]
    /\ last = Response("none", 0, 0, 0, "ok", NoBody)

(***************************************************************************)
(* start_interview                                                         *)
(***************************************************************************)

\* (mutation) the query without the user_id filter: any user's document
find_one_of_any(collection, user_id) ==
    IF collection[user_id] # PyNone THEN collection[user_id]
    ELSE LET others == {u \in DOMAIN collection : collection[u] # PyNone}
         IN IF others = {} THEN PyNone
            ELSE collection[CHOOSE u \in others : \A v \in others : u <= v]

\* resume_collection.find_one({"user_id": current_user.id})
find_one(collection, user_id) == collection[user_id]

\* resume_doc.get("skills", []) or ["General"]
ResumeSkills(resume_doc) ==
    LET got == py_get(resume_doc, "skills", PyList(<<>>))
    IN IF py_truthy(got) THEN got ELSE PyList(<<PyStr("General")>>)

\* (mutation) the round-robin starting at skills[1]
FallbackQuestionShifted(skills, i) ==
    LET skill == skills.items[((i + 1) % Len(skills.items)) + 1]
    IN PyDict(<<"skill", "question", "max_score">>,
              [key \in {"skill", "question", "max_score"} |->
                 CASE key = "skill" -> skill
                   [] key = "question" ->
                        PyStr("Placeholder question #" \o ToString(i + 1)
                              \o " for " \o py_format(skill))
                   [] OTHER -> PyInt(FallbackMaxScore)])

\* one item of the placeholder question set, i counted from 0
FallbackQuestion(skills, i) ==
    LET skill == skills.items[(i % Len(skills.items)) + 1]
    IN PyDict(<<"skill", "question", "max_score">>,
              [key \in {"skill", "question", "max_score"} |->
                 CASE key = "skill" -> skill
                   [] key = "question" ->
                        PyStr("Placeholder question #" \o ToString(i + 1)
                              \o " for " \o py_format(skill))
                   [] OTHER -> PyInt(FallbackMaxScore)])

FallbackQuestions(skills) ==
    PyList([k \in 1..QuestionCount |-> FallbackQuestion(skills, k - 1)])

\* ollama.chat(...), response.get("message", {}).get("content", ""), json.loads
ChatJson(chat) ==
    IF chat.raises THEN Raise("ResponseError") ELSE json_loads(chat.content)

ChatParses(chat) == ChatJson(chat).exc = "none"

\* the try/except around the generation call
GenerateQuestions(skills, chat) ==
    LET parsed == ChatJson(chat)
    IN IF parsed.exc = "none" THEN parsed.val ELSE FallbackQuestions(skills)

\* Answer(interview_id, question_text=q["question"], answer_text=None,
\*        skill=q.get("skill"), max_score=q.get("max_score", 5))
PlaceholderAnswer(iid, q) ==
    IF q.t # "dict" THEN Raise("TypeError")
    ELSE IF "question" \notin Range(q.keys) THEN Raise("KeyError")
    ELSE Ok([interview_id |-> iid,
             question_text |-> q.d["question"],
             answer_text |-> PyNone,
             skill |-> py_get(q, "skill", PyNone),
             max_score |-> py_get(q, "max_score", PyInt(DefaultMaxScore))])

\* "for q in questions_json": the items the loop visits, or the exception
\* raised by iterating a value that is not iterable
py_iter(v) ==
    CASE v.t = "list" -> Ok(v.items)
      [] v.t = "dict" -> Ok([i \in DOMAIN v.keys |-> PyStr(v.keys[i])])
      [] v.t = "str" -> Ok(IF py_truthy(v) THEN <<v>> ELSE <<>>)
      [] OTHER -> Raise("TypeError")

\* the placeholder loop and its commit: all rows, or the first exception
\* (the rows added before it are never committed)
PlaceholderAnswers(iid, questions_json) ==
    LET it == py_iter(questions_json) IN
    IF it.exc # "none" THEN Raise(it.exc)
    ELSE LET rows == [i \in DOMAIN it.val |-> PlaceholderAnswer(iid, it.val[i])]
             bad == {i \in DOMAIN rows : rows[i].exc # "none"}
         IN IF bad = {} THEN Ok([i \in DOMAIN rows |-> rows[i].val])
            ELSE Raise(rows[CHOOSE i \in bad : \A j \in bad : i <= j].exc)

\* replies: what ollama.chat may answer when the handler calls it
start_interview(current_user, interview_type, replies) ==
    LET resume_doc == find_one(resume_collection, current_user) IN
    IF ~py_truthy(resume_doc)
    THEN /\ last' = Response("start", current_user, 0, 0, "ResumeMissing", NoBody)
         /\ UNCHANGED <<resume_collection, db, clock, submissions>>
    ELSE
      \E chat \in replies :
      LET skills == ResumeSkills(resume_doc)
          questions_json == GenerateQuestions(skills, chat)
          iid == Len(interviews) + 1
          interview == [user_id |-> current_user, type |-> interview_type,
                        questions |-> json_dumps(questions_json)]
          rows == PlaceholderAnswers(iid, questions_json)
          count == py_len(questions_json)
      IN /\ Len(interviews) < MaxInterviews
         /\ interviews' = Append(interviews, interview)
         /\ IF rows.exc = "none"
            THEN /\ answers' = answers \o rows.val
                 /\ last' = Response("start", current_user, iid, 0, "ok",
                                     [questions_count |-> count.val,
                                      generated |-> ChatParses(chat)])
            ELSE /\ answers' = answers
                 /\ last' = Response("start", current_user, iid, 0, "ServerError",
                                     [exc |-> rows.exc,
                                      generated |-> ChatParses(chat)])
         /\ UNCHANGED <<resume_collection, scores, reports, clock, submissions>>

(***************************************************************************)
(* Lookups shared by the handlers.                                         *)
(***************************************************************************)

\* (mutation) the lookup without the user_id filter
FindInterviewAnyOwner(interview_id, current_user) ==
    interview_id \in DOMAIN interviews

\* db.query(Interview).filter_by(id=interview_id, user_id=current_user.id).first()
FindInterview(interview_id, current_user) ==
    /\ interview_id \in DOMAIN interviews
    /\ interviews[interview_id].user_id = current_user

\* json.loads(interview.questions)
StoredQuestions(interview_id) ==
    json_loads(interviews[interview_id].questions).val

\* (mutation) the question before the indexed one
QuestionTextBefore(questions, q_index) ==
    LET item == py_index(questions, q_index - 1)
    IN IF item.exc # "none" THEN item ELSE py_item(item.val, "question")

\* questions[q_index]["question"]
QuestionText(questions, q_index) ==
    LET item == py_index(questions, q_index)
    IN IF item.exc # "none" THEN item ELSE py_item(item.val, "question")

\* Query.first() carries no ORDER BY: any matching row may be the one returned
first(rows) == rows

(***************************************************************************)
(* question_page                                                           *)
(***************************************************************************)
question_page(current_user, interview_id, q_index) ==
    /\ UNCHANGED <<resume_collection, db, clock, submissions>>
    /\ IF ~FindInterview(interview_id, current_user)
       THEN last' = Response("question", current_user, interview_id, q_index,
                             "NotFound", NoBody)
       ELSE
         LET questions == StoredQuestions(interview_id)
             total == py_len(questions)
             question == QuestionText(questions, q_index)
         IN IF total.exc # "none"
            THEN last' = Response("question", current_user, interview_id, q_index,
                             "ServerError", [exc |-> total.exc])
            ELSE IF q_index >= total.val
            THEN last' = Response("question", current_user, interview_id, q_index,
                             "Redirect", [url |-> interview_id])
            ELSE IF question.exc # "none"
            THEN last' = Response("question", current_user, interview_id, q_index,
                             "ServerError", [exc |-> question.exc])
            ELSE last' = Response("question", current_user, interview_id, q_index,
                             "ok", [question |-> question.val,
                                         total |-> total.val])

(***************************************************************************)
(* stt_endpoint                                                            *)
(***************************************************************************)

\* WHISPER_MODEL.transcribe: raises, or returns the segments' texts
WhisperRaises == [raises |-> TRUE, segments |-> <<>>]
WhisperReturns(segs) == [raises |-> FALSE, segments |-> segs]

\* " ".join(texts)
RECURSIVE py_join(_)
py_join(texts) ==
    IF texts = <<>> THEN <<>>
    ELSE IF Len(texts) = 1 THEN texts[1]
    ELSE py_join(SubSeq(texts, 1, Len(texts) - 1)) \o <<" ">> \o texts[Len(texts)]

\* the try/except around the transcription
Transcribe(whisper) ==
    IF whisper.raises THEN PyText(<<>>) ELSE PyText(py_join(whisper.segments))

\* len(transcript.split()): the maximal runs of non-blank characters
WordCount(transcript) ==
    LET cs == transcript.chars
    IN Cardinality({i \in DOMAIN cs :
                      cs[i] # " " /\ (i = 1 \/ cs[i - 1] = " ")})

Min(a, b) == IF a <= b THEN a ELSE b
Max(a, b) == IF a >= b THEN a ELSE b

\* (mutation) the score not capped at 5
FallbackScoreUncapped(transcript) ==
    Max(0, WordCount(transcript) \div WordsPerPoint)

\* min(5, max(0, len(transcript.split()) // 20))
FallbackScore(transcript) ==
    Min(FallbackScoreCap, Max(0, WordCount(transcript) \div WordsPerPoint))

\* int(v)
py_int(v) ==
    CASE v.t = "int" -> Ok(v.n)
      [] v.t = "str" ->
           IF \E n \in -99..99 : ToString(n) = v.s
           THEN Ok(CHOOSE n \in -99..99 : ToString(n) = v.s)
           ELSE Raise("ValueError")
      [] OTHER -> Raise("TypeError")

\* the evaluation try/except: score_obtained and feedback
Evaluate(transcript, chat) ==
    LET parsed == ChatJson(chat)
        eval_json == parsed.val
        score == IF parsed.exc # "none" THEN parsed
                 ELSE IF eval_json.t # "dict" THEN Raise("AttributeError")
                 ELSE py_int(py_get(eval_json, "score", PyInt(0)))
    IN IF score.exc = "none"
       THEN [score_obtained |-> score.val,
             feedback |-> py_get(eval_json, "feedback", PyStr(""))]
       ELSE [score_obtained |-> FallbackScore(transcript),
             feedback |-> PyStr("Automated fallback feedback.")]

\* (mutation) an empty transcript stored as NULL ("transcript or None")
WriteAnswerOrNull(rows, k, transcript) ==
    [rows EXCEPT ![k].answer_text =
        IF py_truthy(transcript) THEN transcript ELSE PyNone]

\* answer_row.answer_text = transcript
WriteAnswer(rows, k, transcript) ==
    [rows EXCEPT ![k].answer_text = transcript]

NewAnswer(interview_id, question_text, transcript, q) ==
    [interview_id |-> interview_id,
     question_text |-> question_text,
     answer_text |-> transcript,
     skill |-> py_get(q, "skill", PyNone),
     max_score |-> py_get(q, "max_score", PyInt(DefaultMaxScore))]

\* (mutation) score_total is always 5, whatever the question's max_score
NewScoreOutOfFive(interview_id, q, score_obtained) ==
    [interview_id |-> interview_id,
     skill |-> py_get(q, "skill", PyStr("General")),
     score_obtained |-> PyInt(score_obtained),
     score_total |-> PyInt(5)]

\* Score(interview_id, skill=q.get("skill", "General"), score_obtained,
\*       score_total=q.get("max_score", 5))
NewScore(interview_id, q, score_obtained) ==
    [interview_id |-> interview_id,
     skill |-> py_get(q, "skill", PyStr("General")),
     score_obtained |-> PyInt(score_obtained),
     score_total |-> py_get(q, "max_score", PyInt(DefaultMaxScore))]

\* (mutation) one score per interview and skill, the new one replacing the old
SaveScoreUpsert(rows, score_obj) ==
    LET same == {k \in DOMAIN rows :
                   /\ rows[k].interview_id = score_obj.interview_id
                   /\ rows[k].skill = score_obj.skill}
    IN IF same = {} THEN Append(rows, score_obj)
       ELSE [k \in DOMAIN rows |-> IF k \in same THEN score_obj ELSE rows[k]]

\* (mutation) the score is never written
SaveScoreLost(rows, score_obj) == rows

\* db.add(score_obj); db.commit()
SaveScore(rows, score_obj) == Append(rows, score_obj)

\* (mutation) the commit marks the interview the handler loaded
CommitMarksInterview(rows, interview_id) ==
    [rows EXCEPT ![interview_id].type = "answered"]

\* db.commit() with the Interview of line 269 in the session: the handler only
\* read it, so the flush writes nothing for it
CommitInterview(rows, interview_id) == rows

\* evals: what ollama.chat may answer when the handler calls it
stt_endpoint(current_user, interview_id, q_index, whisper, evals) ==
    LET transcript == Transcribe(whisper)
        Reject(status, body) ==
            /\ last' = Response("stt", current_user, interview_id, q_index,
                                status, body)
            /\ UNCHANGED <<resume_collection, db, clock, submissions>>
    IN
    IF ~FindInterview(interview_id, current_user)
    THEN Reject("NotFound", NoBody)
    ELSE
      LET questions == StoredQuestions(interview_id)
          total == py_len(questions)
          question_text == QuestionText(questions, q_index)
      IN
      IF total.exc # "none" THEN Reject("ServerError", [exc |-> total.exc])
      ELSE IF q_index >= total.val THEN Reject("InvalidIndex", NoBody)
      ELSE IF question_text.exc # "none"
      THEN Reject("ServerError", [exc |-> question_text.exc])
      ELSE
        LET q == py_index(questions, q_index).val
            matching == {k \in DOMAIN answers :
                           /\ answers[k].interview_id = interview_id
                           /\ answers[k].question_text = question_text.val}
        IN \E chat \in evals :
           LET evaluated == Evaluate(transcript, chat) IN
           /\ IF matching = {}
              THEN answers' = Append(answers,
                                     NewAnswer(interview_id, question_text.val,
                                               transcript, q))
              ELSE \E k \in first(matching) :
                      answers' = WriteAnswer(answers, k, transcript)
           /\ scores' = SaveScore(scores,
                                  NewScore(interview_id, q, evaluated.score_obtained))
           /\ submissions' = Append(submissions,
                                    [interview_id |-> interview_id,
                                     q_index |-> q_index,
                                     transcript |-> transcript])
           /\ last' = Response("stt", current_user, interview_id, q_index,
                                "ok",
                               [transcript |-> transcript,
                                score |-> evaluated.score_obtained,
                                feedback |-> evaluated.feedback])
           /\ interviews' = CommitInterview(interviews, interview_id)
           /\ UNCHANGED <<resume_collection, reports, clock>>

(***************************************************************************)
(* stt_endpoint served for several requests at once (worker processes):    *)
(* each request is a transaction of its own, and the requests interleave   *)
(* between the statements that reach the database.                         *)
(***************************************************************************)

\* the request gets past the lookups of lines 269-275
Accepts(current_user, interview_id, q_index) ==
    /\ FindInterview(interview_id, current_user)
    /\ LET questions == StoredQuestions(interview_id)
           total == py_len(questions)
       IN /\ total.exc = "none"
          /\ q_index < total.val
          /\ QuestionText(questions, q_index).exc = "none"

InProgress == {c \in Calls : calls[c].pc \in {"write", "score"}}

\* lines 254-278: transcribe, find the interview and the question, query the
\* Answer row.  A rejected request ends here, as in stt_endpoint.
stt_begin(c, current_user, interview_id, q_index, whisper) ==
    /\ calls[c] = Idle
    /\ IF ~Accepts(current_user, interview_id, q_index)
       THEN /\ stt_endpoint(current_user, interview_id, q_index, whisper, {})
            /\ UNCHANGED calls
       ELSE
         LET question_text ==
                 QuestionText(StoredQuestions(interview_id), q_index).val
             matching == {k \in DOMAIN answers :
                            /\ answers[k].interview_id = interview_id
                            /\ answers[k].question_text = question_text}
             Serve(row, loaded) ==
                 calls' = [calls EXCEPT ![c] =
                             [pc |-> "write",
                              caller |-> current_user,
                              interview_id |-> interview_id,
                              q_index |-> q_index,
                              transcript |-> Transcribe(whisper),
                              question_text |-> question_text,
                              row |-> row,
                              loaded |-> loaded]]
         IN /\ Len(scores) + Cardinality(InProgress) < MaxScores
            /\ IF matching = {} THEN Serve(0, PyNone)
               ELSE \E k \in first(matching) :
                       Serve(k, answers[k].answer_text)
            /\ UNCHANGED <<resume_collection, db, clock, submissions, last>>

\* lines 279-285: insert the Answer, or update the row that was loaded.  The
\* session's flush writes answer_text only when it differs from the value
\* that was loaded.
stt_write(c) ==
    LET call == calls[c]
        q == py_index(StoredQuestions(call.interview_id), call.q_index).val
    IN /\ call.pc = "write"
       /\ answers' =
            IF call.row = 0
            THEN Append(answers,
                        NewAnswer(call.interview_id, call.question_text,
                                  call.transcript, q))
            ELSE IF call.loaded = call.transcript THEN answers
            ELSE WriteAnswer(answers, call.row, call.transcript)
       /\ calls' = [calls EXCEPT ![c].pc = "score"]
       /\ UNCHANGED <<resume_collection, interviews, scores, reports, clock,
                      submissions, last>>

\* lines 287-312: evaluate, save the Score, answer the request
stt_score(c, evals) ==
    LET call == calls[c]
        q == py_index(StoredQuestions(call.interview_id), call.q_index).val
    IN /\ call.pc = "score"
       /\ \E chat \in evals :
            LET evaluated == Evaluate(call.transcript, chat) IN
            /\ scores' = SaveScore(scores,
                                   NewScore(call.interview_id, q,
                                            evaluated.score_obtained))
            /\ last' = Response("stt", call.caller, call.interview_id,
                                call.q_index, "ok",
                                [transcript |-> call.transcript,
                                 score |-> evaluated.score_obtained,
                                 feedback |-> evaluated.feedback])
       /\ submissions' = Append(submissions,
                                [interview_id |-> call.interview_id,
                                 q_index |-> call.q_index,
                                 transcript |-> call.transcript])
       /\ calls' = [calls EXCEPT ![c] = Idle]
       /\ UNCHANGED <<resume_collection, interviews, answers, reports, clock>>

\* the worker dies while it serves the request: nothing more is written
stt_crash(c) ==
    /\ c \in InProgress
    /\ calls' = [calls EXCEPT ![c] =
                    [pc |-> "crashed",
                     interview_id |-> calls[c].interview_id,
                     at |-> calls[c].pc]]
    /\ UNCHANGED <<resume_collection, db, clock, submissions, last>>

(***************************************************************************)
(* immediate_result                                                        *)
(***************************************************************************)

\* db.query(Score).filter_by(interview_id=interview_id).all()
ScoresOf(interview_id) ==
    SelectSeq(scores, LAMBDA s : s.interview_id = interview_id)

\* (mutation) a skill's entry holds its latest score instead of the sums
RECURSIVE SkillMapLatest(_)
SkillMapLatest(rows) ==
    IF rows = <<>> THEN [keys |-> <<>>, d |-> [k \in {} |-> 0]]
    ELSE
      LET prev == SkillMapLatest(SubSeq(rows, 1, Len(rows) - 1))
          s == rows[Len(rows)]
      IN [keys |-> IF s.skill \in Range(prev.keys) THEN prev.keys
                   ELSE Append(prev.keys, s.skill),
          d |-> [k \in Range(prev.keys) \cup {s.skill} |->
                    IF k = s.skill
                    THEN [obtained |-> s.score_obtained.n,
                          total |-> s.score_total.n]
                    ELSE prev.d[k]]]

\* the loop that fills skill_map: skill -> {"obtained", "total"}, a dict whose
\* keys are in order of first appearance
RECURSIVE SkillMap(_)
SkillMap(rows) ==
    IF rows = <<>> THEN [keys |-> <<>>, d |-> [k \in {} |-> 0]]
    ELSE
      LET prev == SkillMap(SubSeq(rows, 1, Len(rows) - 1))
          s == rows[Len(rows)]
          old == IF s.skill \in Range(prev.keys) THEN prev.d[s.skill]
                 ELSE [obtained |-> 0, total |-> 0]
          new == [obtained |-> old.obtained + s.score_obtained.n,
                  total |-> old.total + s.score_total.n]
      IN [keys |-> IF s.skill \in Range(prev.keys) THEN prev.keys
                   ELSE Append(prev.keys, s.skill),
          d |-> [k \in Range(prev.keys) \cup {s.skill} |->
                    IF k = s.skill THEN new ELSE prev.d[k]]]

\* sum(v[field] for v in skill_map.values())
RECURSIVE SumValues(_, _, _)
SumValues(keys, d, field) ==
    IF keys = <<>> THEN 0
    ELSE SumValues(SubSeq(keys, 1, Len(keys) - 1), d, field)
         + d[keys[Len(keys)]][field]

RECURSIVE Gcd(_, _)
Gcd(a, b) == IF b = 0 THEN a ELSE Gcd(b, a % b)

Abs(a) == IF a < 0 THEN -a ELSE a

\* (obtained / total * 100) if total > 0 else 0.0, as an exact fraction
Percent(obtained, total) ==
    IF total > 0
    THEN LET g == Gcd(Abs(obtained * 100), total)
         IN [num |-> (obtained * 100) \div g, den |-> total \div g]
    ELSE [num |-> 0, den |-> 1]

Aggregate(rows) ==
    LET skill_map == SkillMap(rows)
        overall_obtained == SumValues(skill_map.keys, skill_map.d, "obtained")
        overall_total == SumValues(skill_map.keys, skill_map.d, "total")
    IN [skill_map |-> skill_map,
        overall_obtained |-> overall_obtained,
        overall_total |-> overall_total,
        overall_pct |-> Percent(overall_obtained, overall_total)]

immediate_result(current_user, interview_id) ==
    /\ UNCHANGED <<resume_collection, db, clock, submissions>>
    /\ IF ~FindInterview(interview_id, current_user)
       THEN last' = Response("result", current_user, interview_id, 0,
                             "NotFound", NoBody)
       ELSE last' = Response("result", current_user, interview_id, 0,
                             "ok",
                             Aggregate(ScoresOf(interview_id)))

(***************************************************************************)
(* generate_report_api                                                     *)
(***************************************************************************)

\* (mutation) the totals of the report are those of the last entry
SumScoresLast(rows, field) ==
    IF rows = <<>> THEN 0 ELSE rows[Len(rows)][field].n

\* sum(s.score_obtained for s in scores), sum(s.score_total for s in scores)
RECURSIVE SumScores(_, _)
SumScores(rows, field) ==
    IF rows = <<>> THEN 0
    ELSE SumScores(SubSeq(rows, 1, Len(rows) - 1), field) + rows[Len(rows)][field].n

\* f"report_{interview_id}_{int(datetime.utcnow().timestamp())}.pdf"
ReportFilename(interview_id, now) ==
    "report_" \o ToString(interview_id) \o "_" \o ToString(now) \o ".pdf"

\* generate_pdf_report: the path of the file it writes
generate_pdf_report(interview_id, now) ==
    "reports/" \o ReportFilename(interview_id, now)

\* now: what datetime.utcnow() returns when the file is named
generate_report_api(current_user, interview_id, now) ==
    IF ~FindInterview(interview_id, current_user)
    THEN /\ last' = Response("report", current_user, interview_id, 0,
                             "NotFound", NoBody)
         /\ UNCHANGED <<resume_collection, db, clock, submissions>>
    ELSE
      LET rows == ScoresOf(interview_id)
          total_obtained == SumScores(rows, "score_obtained")
          total_possible == SumScores(rows, "score_total")
          overall_pct == Percent(total_obtained, total_possible)
          pdf_path == generate_pdf_report(interview_id, now)
          report == [interview_id |-> interview_id,
                     overall_score |-> overall_pct,
                     pdf_path |-> pdf_path]
      IN /\ Len(reports) < MaxReports
         /\ clock <= now
         /\ reports' = Append(reports, report)
         /\ clock' = now
         /\ last' = Response("report", current_user, interview_id, 0,
                             "ok",
                             [pdf_url |-> "/reports/"
                                          \o ReportFilename(interview_id, now),
                              pdf_path |-> pdf_path])
         /\ UNCHANGED <<resume_collection, interviews, answers, scores,
                        submissions>>

(***************************************************************************)
(* The requests callers may make.                                          *)
(***************************************************************************)
InterviewIds == 1..(Len(interviews) + 1)
QIndexes == {-3, -1, 0, 1, 15}

\* a segment of n one-letter words, each preceded by a blank
Segment(n) == [i \in 1..(2 * n) |-> IF i % 2 = 1 THEN " " ELSE "a"]

\* a short answer in two segments, and one of forty words
Speech == WhisperReturns(<<Segment(1), Segment(1)>>)
LongSpeech == WhisperReturns(<<Segment(20), Segment(20)>>)

WhisperReplies == {WhisperRaises, WhisperReturns(<<>>), Speech, LongSpeech}

\* answers of 0, 19, 20, 40, 99, 100 and 120 words
Speeches ==
    {WhisperRaises, WhisperReturns(<<Segment(19)>>),
     WhisperReturns(<<Segment(20)>>), LongSpeech,
     WhisperReturns(<<Segment(99)>>),
     WhisperReturns(<<Segment(99), Segment(1)>>),
     WhisperReturns(<<Segment(20), Segment(100)>>)}

EvalObj(score) ==
    JObj(<< <<"score", score>>, <<"feedback", JStr("ok")>> >>)

\* what the collaborator may answer to the evaluation prompt
EvalReplies ==
    { ChatRaises,
      ChatReturns(NotJson),
      ChatReturns(EvalObj(JNum(3))),
      ChatReturns(EvalObj(JStr("3"))),
      ChatReturns(EvalObj(JNum(9))),
      ChatReturns(EvalObj(JStr("abc"))),
      ChatReturns(JArr(<<>>)) }

\* An environment: who calls, with which indices, at which times, what the
\* collaborators may answer, and how many submissions are explored.
Env(users, idxs, replies, whispers, evals, times, max_scores) ==
    [users |-> users, idxs |-> idxs, replies |-> replies,
     whispers |-> whispers, evals |-> evals, times |-> times,
     max_scores |-> max_scores]

StartInterview(env) ==
    \E u \in env.users, ty \in InterviewTypes :
        start_interview(u, ty, env.replies) /\ UNCHANGED calls

QuestionPage(env) ==
    \E u \in env.users, iid \in InterviewIds, idx \in env.idxs :
        question_page(u, iid, idx) /\ UNCHANGED calls

SubmitAnswer(env) ==
    \E u \in env.users, iid \in InterviewIds, idx \in env.idxs,
       whisper \in env.whispers :
        /\ Accepts(u, iid, idx) => Len(scores) < env.max_scores
        /\ stt_endpoint(u, iid, idx, whisper, env.evals)
        /\ UNCHANGED calls

ImmediateResult(env) ==
    \E u \in env.users, iid \in InterviewIds :
        immediate_result(u, iid) /\ UNCHANGED calls

GenerateReport(env) ==
    \E u \in env.users, iid \in InterviewIds, now \in env.times :
        generate_report_api(u, iid, now) /\ UNCHANGED calls

\* the number of submissions completed on an interview
Submitted(iid) ==
    Cardinality({n \in DOMAIN submissions :
                   submissions[n].interview_id = iid})

\* the candidate answers the questions of the latest interview in order, as
\* the question page leads them: index 0, then 1, ...
SubmitNext(env) ==
    \E u \in env.users, whisper \in env.whispers :
        LET iid == Len(interviews)
        IN /\ iid >= 1
           /\ Accepts(u, iid, Submitted(iid)) => Len(scores) < env.max_scores
           /\ stt_endpoint(u, iid, Submitted(iid), whisper, env.evals)
           /\ UNCHANGED calls

\* the steps of the requests stt_endpoint serves at the same time
BeginSubmit(env) ==
    \E c \in Calls, u \in env.users, iid \in InterviewIds, idx \in env.idxs,
       whisper \in env.whispers :
        stt_begin(c, u, iid, idx, whisper)

WriteSubmit == \E c \in Calls : stt_write(c)

ScoreSubmit(env) == \E c \in Calls : stt_score(c, env.evals)

CrashSubmit == \E c \in Calls : stt_crash(c)

Next(env) ==
    \/ StartInterview(env)
    \/ QuestionPage(env)
    \/ SubmitAnswer(env)
    \/ ImmediateResult(env)
    \/ GenerateReport(env)

\* interviews are started and answers submitted, several at a time
NextConcurrent(env) ==
    \/ StartInterview(env)
    \/ BeginSubmit(env)
    \/ WriteSubmit
    \/ ScoreSubmit(env)

(***************************************************************************)
(* Specifications.  Each explores every operation, varying one aspect of   *)
(* the environment and keeping the others small.                           *)
(***************************************************************************)
SkilledResumes ==
    {c \in ResumeCollections : Len(ResumeSkills(c[1]).items) = 2}

Scored(n) == ChatReturns(EvalObj(JNum(n)))

\* callers vary: two users with a résumé and one without
OwnershipEnv ==
    Env(Users, {0}, {ChatReturns(TwoQuestions)}, {Speech}, {Scored(3)}, {0}, MaxScores)
SpecOwnership == InitIn(SkilledResumes) /\ [][Next(OwnershipEnv)]_vars

\* the generation replies and the résumé documents vary
GenerationEnv ==
    Env(Users, {0}, QuestionReplies, {WhisperRaises}, {ChatRaises}, {0}, MaxScores)
SpecGeneration == InitIn(ResumeCollections) /\ [][Next(GenerationEnv)]_vars

\* generation fails or succeeds; only the operations that read the question set
FallbackEnv ==
    Env(Users, QIndexes,
        {ChatRaises, ChatReturns(NotJson), ChatReturns(TwoQuestions)},
        {}, {}, {}, MaxScores)
SpecFallback ==
    InitIn(ResumeCollections)
    /\ [][StartInterview(FallbackEnv) \/ QuestionPage(FallbackEnv)
          \/ ImmediateResult(FallbackEnv)]_vars

\* the evaluation replies vary, for the question whose max_score is 1
ScoringEnv ==
    Env({1}, {1}, {ChatReturns(TwoQuestions)}, {WhisperRaises, LongSpeech},
        EvalReplies, {0}, MaxScores)
SpecScoring == InitIn(SkilledResumes) /\ [][Next(ScoringEnv)]_vars

\* repeated submissions for either question
AppendEnv ==
    Env({1}, {0, 1}, {ChatReturns(TwoQuestions)}, {Speech}, {Scored(3)}, {0}, MaxScores)
SpecAppend == InitIn(SkilledResumes) /\ [][Next(AppendEnv)]_vars

\* the indices vary
IndexEnv ==
    Env({1}, QIndexes, {ChatReturns(TwoQuestions), ChatReturns(SameQuestionTwice),
                        ChatReturns(SecondLacksQuestion)},
        {WhisperRaises, Speech}, {ChatRaises}, {0}, MaxScores)
SpecIndex == InitIn(SkilledResumes) /\ [][Next(IndexEnv)]_vars

\* the transcripts vary, for an interview of one question
RecordEnv ==
    Env({1}, {0}, {ChatReturns(OneQuestion)}, {WhisperRaises, Speech},
        {ChatRaises}, {0}, MaxScores)
SpecRecord == InitIn(SkilledResumes) /\ [][Next(RecordEnv)]_vars

\* reports of a completed interview of one question, at the same or a later
\* clock second
ReportEnv ==
    Env({1}, {0}, {ChatReturns(OneQuestion)}, {Speech}, {Scored(3)}, {0, 1}, MaxScores)
SpecReport == InitIn(SkilledResumes) /\ [][Next(ReportEnv)]_vars

\* two submissions at a time, with indices and question sets that vary
RaceEnv ==
    Env({1}, {-1, 0, 1},
        {ChatReturns(TwoQuestions), ChatReturns(SameQuestionTwice)},
        {WhisperRaises, Speech}, {ChatRaises}, {}, MaxScores)
SpecRace == InitIn(SkilledResumes) /\ [][NextConcurrent(RaceEnv)]_vars

\* two submissions at a time on a well-formed question set, and workers that
\* may die while they serve one
CrashEnv ==
    Env({1}, {0, 1}, {ChatReturns(TwoQuestions)}, {WhisperRaises, Speech},
        {ChatRaises}, {}, MaxScores)
SpecCrash ==
    InitIn(SkilledResumes)
    /\ [][NextConcurrent(CrashEnv) \/ CrashSubmit]_vars

\* a whole interview with the collaborators down: fallback questions (or a
\* generated set of two), every answer an empty transcript scored by the
\* fallback, as many submissions as the fallback set has questions
WalkEnv ==
    Env({1, 2}, {}, {ChatRaises, ChatReturns(TwoQuestions)}, {WhisperRaises},
        {ChatRaises}, {}, QuestionCount)
SpecWalk ==
    InitIn(ResumeCollections)
    /\ [][StartInterview(WalkEnv) \/ SubmitNext(WalkEnv)
          \/ ImmediateResult(WalkEnv)]_vars

\* answers of many lengths, scored while the evaluation call fails or returns
\* text that is not JSON
LengthEnv ==
    Env({1}, {0}, {ChatReturns(TwoQuestions)}, Speeches,
        {ChatRaises, ChatReturns(NotJson)}, {}, MaxScores)
SpecLength ==
    InitIn(SkilledResumes)
    /\ [][StartInterview(LengthEnv) \/ SubmitAnswer(LengthEnv)]_vars

\* scores of several values for two skills, and the result read after each
AggregateEnv ==
    Env({1}, {0, 1}, {ChatReturns(TwoQuestions)}, {WhisperRaises},
        {ChatRaises, Scored(3), Scored(9)}, {}, MaxScores)
SpecAggregate ==
    InitIn(SkilledResumes)
    /\ [][StartInterview(AggregateEnv) \/ SubmitAnswer(AggregateEnv)
          \/ ImmediateResult(AggregateEnv)]_vars

\* every operation, by the owner and by another user, on interviews of two
\* questions
ImmutableEnv ==
    Env({1, 2}, {0}, {ChatReturns(TwoQuestions)}, {WhisperRaises}, {ChatRaises}, {0},
        MaxScores)
SpecImmutable == InitIn(SkilledResumes) /\ [][Next(ImmutableEnv)]_vars

\* results and reports of interviews whose entries vary in skill and score
AgreeEnv ==
    Env({1}, {0, 1}, {ChatReturns(TwoQuestions)}, {WhisperRaises},
        {Scored(3)}, {0}, MaxScores)
SpecAgree ==
    InitIn(SkilledResumes)
    /\ [][StartInterview(AgreeEnv) \/ SubmitAnswer(AgreeEnv)
          \/ ImmediateResult(AgreeEnv) \/ GenerateReport(AgreeEnv)]_vars

(***************************************************************************)
(* Properties.                                                             *)
(***************************************************************************)

\* the question set of an interview, when it is a list
IsQuestionList(iid) == StoredQuestions(iid).t = "list"
QuestionItems(iid) == StoredQuestions(iid).items

\* the rows of table answers that belong to an interview
AnswerRows(iid) == {k \in DOMAIN answers : answers[k].interview_id = iid}

\* C1: ownership isolation.  A getQuestion, submitAnswer, getResult or
\* generateReport request naming an existing interview that the caller did
\* not create is answered NotFound, and leaves every Interview, Answer,
\* ScoreEntry and Report record unchanged.
ForeignRequest(r) ==
    /\ r.op \in {"question", "stt", "result", "report"}
    /\ r.interview_id \in DOMAIN interviews
    /\ interviews[r.interview_id].user_id # r.caller

OwnershipIsolation ==
    [][ForeignRequest(last') => (last'.status = "NotFound" /\ db' = db)]_vars

\* a submitAnswer by another caller was rejected, on an interview that has
\* a recorded answer and a score
OwnershipWitness ==
    /\ ForeignRequest(last)
    /\ last.op = "stt"
    /\ last.status = "NotFound"
    /\ \E k \in DOMAIN scores : scores[k].interview_id = last.interview_id
    /\ \E k \in AnswerRows(last.interview_id) : answers[k].answer_text # PyNone

\* C2: every ScoreEntry has 0 <= score_obtained <= score_total.
ScoreWithinBounds ==
    \A k \in DOMAIN scores :
        /\ 0 <= scores[k].score_obtained.n
        /\ scores[k].score_obtained.n <= scores[k].score_total.n

\* C3: an interview has at most one Answer row per question text.
OneAnswerPerQuestion ==
    \A k1, k2 \in DOMAIN answers :
        (/\ k1 # k2
         /\ answers[k1].interview_id = answers[k2].interview_id)
        => answers[k1].question_text # answers[k2].question_text

\* a question-set item that is an object with a "question" key
IsQuestionSpec(q) == q.t = "dict" /\ "question" \in Range(q.keys)

\* the request names an interview of the caller whose question set is a list
OwnedRequest(r) ==
    /\ FindInterview(r.interview_id, r.caller)
    /\ IsQuestionList(r.interview_id)

InRange(iid, idx) == 0 <= idx /\ idx < Len(QuestionItems(iid))

\* C4: submitAnswer on an owned interview with an index outside 0..N-1,
\* negative indices included, fails with InvalidIndex and leaves the Answers
\* and ScoreEntries unchanged.
RejectsOutOfRange ==
    [][(/\ last'.op = "stt"
        /\ OwnedRequest(last')
        /\ ~InRange(last'.interview_id, last'.q_index))
       => (/\ last'.status = "InvalidIndex"
           /\ answers' = answers
           /\ scores' = scores)]_vars

\* C5: every persisted Interview has, for each QuestionSpec of its question
\* set, an Answer row with that question text and the QuestionSpec's skill
\* and max_score; right after start returns, the interview's Answers all have
\* a null answer_text.
PlaceholdersExist ==
    \A iid \in DOMAIN interviews :
        IsQuestionList(iid) =>
          /\ \A i \in DOMAIN QuestionItems(iid) :
               LET q == QuestionItems(iid)[i] IN
               IsQuestionSpec(q) =>
                 \E k \in AnswerRows(iid) :
                    /\ answers[k].question_text = q.d["question"]
                    /\ "skill" \in Range(q.keys) => answers[k].skill = q.d["skill"]
                    /\ "max_score" \in Range(q.keys)
                          => answers[k].max_score = q.d["max_score"]
          /\ (last.op = "start" /\ last.interview_id = iid)
                => \A k \in AnswerRows(iid) : answers[k].answer_text = PyNone

\* C6: collaborator failures are never surfaced.  The only errors are
\* NotFound, ResumeMissing and InvalidIndex; start by a caller who has a
\* résumé succeeds, and so does submitAnswer on an owned interview with a
\* valid index.
OnlyDocumentedErrors ==
    /\ last.status \in {"ok", "Redirect", "NotFound", "ResumeMissing",
                        "InvalidIndex"}
    /\ (last.op = "start" /\ py_truthy(resume_collection[last.caller]))
          => last.status = "ok"
    /\ (/\ last.op = "stt"
        /\ OwnedRequest(last)
        /\ InRange(last.interview_id, last.q_index))
          => last.status = "ok"

\* the skill list start works from: the stored one, or ["General"] when it is
\* empty or missing
StoredSkills(u) ==
    LET doc == resume_collection[u]
    IN IF "skills" \in Range(doc.keys) /\ doc.d["skills"].items # <<>>
       THEN doc.d["skills"].items
       ELSE <<PyStr("General")>>

\* start got past the résumé check and the generation took the fallback path
FallbackStart(r) ==
    r.op = "start" /\ r.status # "ResumeMissing" /\ ~r.body.generated

\* C7: on the fallback path start succeeds with exactly 15 questions; item i
\* (from 0) has skill skills[i mod len(skills)], the text "Placeholder
\* question #{i+1} for {skill}" and max_score 5, where skills is the stored
\* list, or ["General"] when that is empty or missing.
FallbackQuestionSet ==
    FallbackStart(last) =>
      LET skills == StoredSkills(last.caller)
          qs == StoredQuestions(last.interview_id)
      IN /\ last.status = "ok"
         /\ last.body.questions_count = 15
         /\ qs.t = "list"
         /\ Len(qs.items) = 15
         /\ \A i \in 0..14 :
              LET q == qs.items[i + 1]
                  skill == skills[(i % Len(skills)) + 1]
              IN /\ q.keys = <<"skill", "question", "max_score">>
                 /\ q.d["skill"] = skill
                 /\ q.d["question"] =
                       PyStr("Placeholder question #" \o ToString(i + 1)
                             \o " for " \o skill.s)
                 /\ q.d["max_score"] = PyInt(5)
         /\ skills = <<PyStr("Python"), PyStr("Sql")>>
               => /\ qs.items[2].d["question"]
                       = PyStr("Placeholder question #2 for Sql")
                  /\ qs.items[15].d["question"]
                       = PyStr("Placeholder question #15 for Python")
         /\ skills = <<PyStr("General")>>
               => qs.items[15].d["question"]
                     = PyStr("Placeholder question #15 for General")

\* the fallback path for a caller with two stored skills
FallbackWitness ==
    FallbackStart(last) /\ Len(StoredSkills(last.caller)) = 2

\* the aggregate's overall total of an interview over the ScoreEntries rows
OverallTotalIn(rows, iid) ==
    Aggregate(SelectSeq(rows, LAMBDA s : s.interview_id = iid)).overall_total

OverallTotal(iid) == OverallTotalIn(scores, iid)

\* C8: ScoreEntry is append-only.  A successful submitAnswer appends exactly
\* one ScoreEntry with the skill and max_score of the indexed question, and
\* the aggregate's overall total grows by that max_score; no other step
\* changes the ScoreEntries.
ScoresAppendOnly ==
    [][IF last'.op = "stt" /\ last'.status = "ok"
       THEN \E iid \in DOMAIN interviews :
            LET q == py_index(StoredQuestions(iid), last'.q_index).val
                e == scores'[Len(scores')]
            IN /\ iid = last'.interview_id
               /\ Len(scores') = Len(scores) + 1
               /\ SubSeq(scores', 1, Len(scores)) = scores
               /\ e.interview_id = iid
               /\ e.skill = (IF "skill" \in Range(q.keys) THEN q.d["skill"]
                             ELSE PyStr("General"))
               /\ e.score_total = (IF "max_score" \in Range(q.keys)
                                   THEN q.d["max_score"] ELSE PyInt(5))
               /\ OverallTotalIn(scores', iid)
                     = OverallTotalIn(scores, iid) + e.score_total.n
       ELSE scores' = scores]_vars

\* the same index submitted twice: two ScoreEntries, its max_score counted twice
AppendWitness ==
    /\ last.op = "stt"
    /\ Len(submissions) = 2
    /\ submissions[1].interview_id = submissions[2].interview_id
    /\ submissions[1].q_index = submissions[2].q_index
    /\ Len(ScoresOf(last.interview_id)) = 2
    /\ OverallTotal(last.interview_id) = 2 * scores[1].score_total.n

\* the completed submissions for index i of an interview
SubmissionsFor(iid, i) ==
    {n \in DOMAIN submissions :
        submissions[n].interview_id = iid /\ submissions[n].q_index = i}

\* the Answer rows of an interview that carry the text of QuestionSpec q
AnswersOf(iid, q) ==
    {k \in AnswerRows(iid) : answers[k].question_text = q.d["question"]}

LatestWins ==
    \A iid \in DOMAIN interviews :
        IsQuestionList(iid) =>
          LET qs == QuestionItems(iid)
          IN \A i \in 0..(Len(qs) - 1) :
             IsQuestionSpec(qs[i + 1]) =>
               LET subs == SubmissionsFor(iid, i)
                   latest == CHOOSE n \in subs : \A m \in subs : m <= n
               IN \A k \in AnswersOf(iid, qs[i + 1]) :
                     IF subs = {} THEN answers[k].answer_text = PyNone
                     ELSE answers[k].answer_text = submissions[latest].transcript

\* C9: latest submission wins.  For every index i the Answer of question i
\* has a null answer_text iff no submission for index i has succeeded, and
\* otherwise the transcript of the latest successful submission for index i;
\* submitAnswer does not change the number of Answer rows of the interview.
LatestSubmissionWins ==
    [][/\ LatestWins'
       /\ last'.op = "stt"
             => \A iid \in DOMAIN interviews :
                   Cardinality(AnswerRows(iid)') = Cardinality(AnswerRows(iid))]_vars

\* the number of QuestionSpecs in qs for which the Answer rows hold an
\* Answer of interview iid with an answer_text
AnsweredCountIn(qs, rows, iid) ==
    Cardinality({i \in DOMAIN qs :
                   /\ IsQuestionSpec(qs[i])
                   /\ \E k \in DOMAIN rows :
                        /\ rows[k].interview_id = iid
                        /\ rows[k].question_text = qs[i].d["question"]
                        /\ rows[k].answer_text # PyNone})

\* all N questions answered
CompleteIn(qs, rows, iid) ==
    /\ AnsweredCountIn(qs, rows, iid) = Len(qs)
    /\ \A k \in DOMAIN rows :
          rows[k].interview_id = iid => rows[k].answer_text # PyNone

AnsweredCount(iid) == AnsweredCountIn(QuestionItems(iid), answers, iid)
Complete(iid) == CompleteIn(QuestionItems(iid), answers, iid)

\* C10: session transitions are monotonic.  No step lowers the number of
\* answered questions of an interview or removes an Answer, and a Complete
\* interview stays Complete.
MonotonicSession ==
    [][\A iid \in DOMAIN interviews :
          IsQuestionList(iid) =>
            LET qs == QuestionItems(iid)
                qs_after == json_loads(interviews'[iid].questions).val.items
            IN /\ iid \in DOMAIN interviews'
               /\ AnsweredCountIn(qs_after, answers', iid)
                     >= AnsweredCountIn(qs, answers, iid)
               /\ \A k \in DOMAIN answers :
                     /\ k \in DOMAIN answers'
                     /\ answers'[k].interview_id = answers[k].interview_id
                     /\ answers'[k].question_text = answers[k].question_text
               /\ CompleteIn(qs, answers, iid)
                     => CompleteIn(qs_after, answers', iid)]_vars

\* an answer re-recorded, with an empty transcript, on a Complete interview
RecordWitness ==
    /\ last.op = "stt"
    /\ last.status = "ok"
    /\ Complete(last.interview_id)
    /\ Cardinality(SubmissionsFor(last.interview_id, last.q_index)) = 2
    /\ last.body.transcript = PyText(<<>>)
\* a successful request of this operation
Succeeded(r, op) == r.op = op /\ r.status = "ok"

\* C11: two generateReport calls in a row on the same Complete interview
\* (so with the same ScoreEntries) leave two Report records with the same
\* overall score and two distinct artifact paths, whatever the clock shows
\* at the two calls.
ReportTwice ==
    [][(/\ Succeeded(last, "report")
        /\ Succeeded(last', "report")
        /\ last'.interview_id = last.interview_id
        /\ Complete(last.interview_id))
       => /\ Len(reports') = Len(reports) + 1
          /\ reports'[Len(reports')].interview_id = last.interview_id
          /\ reports'[Len(reports')].overall_score
                = reports[Len(reports)].overall_score
          /\ reports'[Len(reports')].pdf_path
                # reports[Len(reports)].pdf_path]_vars

\* the QuestionSpec a request's index selects
IndexedQuestion(iid, idx) == py_index(StoredQuestions(iid), idx).val

\* C12: once two submitAnswer calls on the same interview, served at the
\* same time in any interleaving, have both completed: if their indices
\* differ they wrote disjoint Answer rows, each question's answer_text is its
\* own call's transcript and two ScoreEntries were appended; if the indices
\* are equal the question has exactly one Answer row, whose answer_text is
\* the transcript of one of the two calls.
ConcurrentSubmits ==
    (/\ InProgress = {}
     /\ Len(submissions) = 2
     /\ submissions[1].interview_id = submissions[2].interview_id)
    => LET iid == submissions[1].interview_id
           s1 == submissions[1]
           s2 == submissions[2]
           rows1 == AnswersOf(iid, IndexedQuestion(iid, s1.q_index))
           rows2 == AnswersOf(iid, IndexedQuestion(iid, s2.q_index))
       IN IF s1.q_index # s2.q_index
          THEN /\ rows1 \cap rows2 = {}
               /\ \A k \in rows1 : answers[k].answer_text = s1.transcript
               /\ \A k \in rows2 : answers[k].answer_text = s2.transcript
               /\ Len(ScoresOf(iid)) = 2
          ELSE /\ Cardinality(rows1) = 1
               /\ \A k \in rows1 :
                     answers[k].answer_text \in {s1.transcript, s2.transcript}

\* every index 0..N-1 of the interview was submitted exactly once
SubmittedOnce(iid) ==
    \A i \in 0..(Len(QuestionItems(iid)) - 1) :
        Cardinality(SubmissionsFor(iid, i)) = 1

\* the sum of max_score over a question set
RECURSIVE SumMaxScore(_)
SumMaxScore(qs) ==
    IF qs = <<>> THEN 0
    ELSE SumMaxScore(SubSeq(qs, 1, Len(qs) - 1))
         + (IF "max_score" \in Range(qs[Len(qs)].keys)
            THEN qs[Len(qs)].d["max_score"].n ELSE 5)

\* C13: with the collaborators down, once each index was submitted exactly
\* once (with an empty transcript) the aggregate's overall total is the sum
\* of max_score over the question set; for the fallback set of 15 questions
\* the interview has exactly 15 ScoreEntries, each 0 out of 5, and the
\* aggregate is 0 obtained, 75 total, 0 percent, which is what getResult
\* returns.
EndToEnd ==
    \A iid \in DOMAIN interviews :
        (IsQuestionList(iid) /\ SubmittedOnce(iid)) =>
          LET qs == QuestionItems(iid)
              rows == ScoresOf(iid)
              agg == Aggregate(rows)
          IN /\ agg.overall_total = SumMaxScore(qs)
             /\ Len(qs) = 15 =>
                  /\ Len(rows) = 15
                  /\ \A k \in DOMAIN rows :
                        /\ rows[k].score_obtained = PyInt(0)
                        /\ rows[k].score_total = PyInt(5)
                  /\ agg.overall_obtained = 0
                  /\ agg.overall_total = 75
                  /\ agg.overall_pct = [num |-> 0, den |-> 1]
             /\ (Succeeded(last, "result") /\ last.interview_id = iid)
                   => last.body = agg

\* the result of a fallback interview after its 15 submissions
EndToEndWitness ==
    /\ Succeeded(last, "result")
    /\ Len(QuestionItems(last.interview_id)) = 15
    /\ SubmittedOnce(last.interview_id)
    /\ \A n \in DOMAIN submissions : submissions[n].transcript = PyText(<<>>)
    /\ last.body.overall_total = 75

\* the number of whitespace-separated words of the n-th submission
Words(n) == WordCount(submissions[n].transcript)

\* C14: when the evaluation call fails or returns non-JSON, a transcript of
\* w words scores min(5, max(0, w div 20)): 0 for w = 0, 2 for w = 40, 5 for
\* w >= 100, always within 0..5 and non-decreasing in w; the feedback is
\* "Automated fallback feedback.".
FallbackEvaluation ==
    /\ Len(scores) = Len(submissions)
    /\ \A n \in DOMAIN submissions :
          LET w == Words(n)
              score == scores[n].score_obtained.n
              floor == IF w \div 20 < 0 THEN 0 ELSE w \div 20
          IN /\ score = (IF floor > 5 THEN 5 ELSE floor)
             /\ score \in 0..5
             /\ w = 0 => score = 0
             /\ w = 40 => score = 2
             /\ w >= 100 => score = 5
             /\ \A m \in DOMAIN submissions :
                   Words(m) <= w => scores[m].score_obtained.n <= score
    /\ Succeeded(last, "stt")
          => /\ last.body.score = scores[Len(scores)].score_obtained.n
             /\ last.body.feedback = PyStr("Automated fallback feedback.")

\* an answer of 40 words scored 2 and one of 120 words scored 5
FallbackEvaluationWitness ==
    /\ Succeeded(last, "stt")
    /\ \E n \in DOMAIN submissions :
          Len(submissions[n].transcript.chars) = 81 /\ Words(n) = 40
          /\ scores[n].score_obtained = PyInt(2)
    /\ \E n \in DOMAIN submissions :
          Words(n) = 120 /\ scores[n].score_obtained = PyInt(5)

\* the sum of a field over ScoreEntries rows
RECURSIVE SumField(_, _)
SumField(rows, field) ==
    IF rows = <<>> THEN 0
    ELSE SumField(Tail(rows), field) + Head(rows)[field].n

\* the aggregate agg is the one the claim describes for the input rows
IsAggregateOf(agg, rows) ==
    LET obtained == SumField(rows, "score_obtained")
        total == SumField(rows, "score_total")
    IN /\ Range(agg.skill_map.keys) = {rows[k].skill : k \in DOMAIN rows}
       /\ DOMAIN agg.skill_map.d = Range(agg.skill_map.keys)
       /\ Len(agg.skill_map.keys) = Cardinality(Range(agg.skill_map.keys))
       /\ \A s \in Range(agg.skill_map.keys) :
            LET of_skill == SelectSeq(rows, LAMBDA r : r.skill = s)
            IN /\ agg.skill_map.d[s].obtained
                    = SumField(of_skill, "score_obtained")
               /\ agg.skill_map.d[s].total
                    = SumField(of_skill, "score_total")
       /\ agg.overall_obtained = obtained
       /\ agg.overall_total = total
       /\ IF total > 0
          THEN agg.overall_pct.num * total
                  = obtained * 100 * agg.overall_pct.den
          ELSE agg.overall_pct.num = 0
       /\ rows = <<>>
             => /\ agg.skill_map.keys = <<>>
                /\ agg.overall_obtained = 0
                /\ agg.overall_total = 0
                /\ agg.overall_pct.num = 0

\* the orders in which a sequence of rows may be given
Orders(rows) ==
    {p \in [DOMAIN rows -> DOMAIN rows] :
        \A i, j \in DOMAIN rows : p[i] = p[j] => i = j}

\* C15: the aggregate of an interview's ScoreEntries, in whatever order they
\* are given, has per skill the sums of score_obtained and score_total over
\* the entries of that skill and no other skill, overall the sums over all
\* entries, the percent obtained / total * 100 when the total is positive
\* and 0 otherwise, and for no entries an empty mapping and zeros; getResult
\* returns it.
AggregateSums ==
    \A iid \in DOMAIN interviews :
        LET rows == ScoresOf(iid)
        IN /\ \A p \in Orders(rows) :
                IsAggregateOf(Aggregate([i \in DOMAIN rows |-> rows[p[i]]]),
                              rows)
           /\ (Succeeded(last, "result") /\ last.interview_id = iid)
                 => IsAggregateOf(last.body, rows)

\* the result of two entries of the same skill, scored 9 and 3
AggregateWitness ==
    /\ Succeeded(last, "result")
    /\ Len(ScoresOf(last.interview_id)) = 2
    /\ last.body.overall_obtained = 12
    /\ Len(last.body.skill_map.keys) = 1

\* every item of the interview's question set is a QuestionSpec
HasQuestions(iid) ==
    \A i \in DOMAIN QuestionItems(iid) : IsQuestionSpec(QuestionItems(iid)[i])

\* C16: getQuestion by the owner of an interview with N questions signals
\* "interview complete" (a redirect to the result view), not an error, for
\* every index >= N, returns the question at that position of the stored
\* question set for every index in 0..N-1, and changes no persisted state.
GetQuestion ==
    [][(/\ last'.op = "question"
        /\ OwnedRequest(last')
        /\ HasQuestions(last'.interview_id)
        /\ last'.q_index >= 0)
       => \E iid \in DOMAIN interviews :
            LET qs == QuestionItems(iid)
                idx == last'.q_index
            IN /\ iid = last'.interview_id
               /\ db' = db
               /\ resume_collection' = resume_collection
               /\ IF idx >= Len(qs)
                  THEN /\ last'.status = "Redirect"
                       /\ last'.body.url = iid
                  ELSE /\ last'.status = "ok"
                       /\ last'.body.question = qs[idx + 1].d["question"]
                       /\ last'.body.total = Len(qs)]_vars

\* index 15 of a fallback interview of 15 questions redirects to the result
GetQuestionWitness ==
    /\ last.op = "question"
    /\ OwnedRequest(last)
    /\ last.status = "Redirect"
    /\ last.q_index = 15
    /\ Len(QuestionItems(last.interview_id)) = 15
\* C17: start by a caller for whom no résumé record exists fails with
\* ResumeMissing, leaves every Interview, Answer, ScoreEntry and Report and
\* the résumé records unchanged, and answers without a reply of the
\* text-generation collaborator (it is not called).
StartWithoutResume ==
    [][(/\ last'.op = "start"
        /\ resume_collection[last'.caller] = PyNone)
       => /\ last'.status = "ResumeMissing"
          /\ db' = db
          /\ resume_collection' = resume_collection
          /\ last'.body = NoBody
          /\ "generated" \notin DOMAIN last'.body]_vars

\* start was refused for the caller without a résumé while another caller's
\* interview, answer and score exist
StartWithoutResumeWitness ==
    /\ last.op = "start"
    /\ last.status = "ResumeMissing"
    /\ resume_collection[last.caller] = PyNone
    /\ interviews # <<>>
    /\ scores # <<>>
    /\ \E k \in DOMAIN answers : answers[k].answer_text # PyNone

\* C18: the question set of an interview is immutable.  No step changes the
\* questions, owner or type of a persisted Interview or removes it, whoever
\* calls, and the index of a getQuestion or submitAnswer request resolves to
\* the same QuestionSpec after the step as before it.
QuestionSetImmutable ==
    [][\A iid \in DOMAIN interviews :
          /\ iid \in DOMAIN interviews'
          /\ interviews'[iid].questions = interviews[iid].questions
          /\ interviews'[iid].user_id = interviews[iid].user_id
          /\ interviews'[iid].type = interviews[iid].type
          /\ (last'.op \in {"question", "stt"} /\ last'.interview_id = iid)
                => py_index(json_loads(interviews'[iid].questions).val,
                            last'.q_index)
                      = py_index(StoredQuestions(iid), last'.q_index)]_vars

\* after answers, a report and another caller's requests, index 0 still
\* resolves to the first generated question
QuestionSetImmutableWitness ==
    /\ Succeeded(last, "question")
    /\ last.body.question = PyStr("Q1")
    /\ scores # <<>>
    /\ reports # <<>>
    /\ interviews[last.interview_id].questions = TwoQuestions

\* the Answer rows of an interview that carry a text
AnsweredRows(iid) == {k \in AnswerRows(iid) : answers[k].answer_text # PyNone}

\* one successful submitAnswer, or more, for each index 0..N-1
AllSubmitted(iid) ==
    \A i \in 0..(Len(QuestionItems(iid)) - 1) : SubmissionsFor(iid, i) # {}

\* C19: progress to Complete.  Once the owner has made a successful
\* submitAnswer for each index 0..N-1 of an interview of N questions, every
\* Answer of the interview has a non-null answer_text and the number of
\* answered Answers is N.
ProgressToComplete ==
    \A iid \in DOMAIN interviews :
        (IsQuestionList(iid) /\ AllSubmitted(iid))
           => /\ AnsweredRows(iid) = AnswerRows(iid)
              /\ Cardinality(AnsweredRows(iid)) = Len(QuestionItems(iid))
\* the calls that were accepted on an interview and have not returned
OpenCalls(iid) ==
    {c \in Calls : /\ calls[c].pc \in {"write", "score", "crashed"}
                   /\ calls[c].interview_id = iid}

\* those of them that stand, or died, between the answer write and the score
\* write
InWindow(iid) ==
    {c \in OpenCalls(iid) :
        \/ calls[c].pc = "score"
        \/ calls[c].pc = "crashed" /\ calls[c].at = "score"}

\* C20: answer/score consistency.  While no submitAnswer call is in progress
\* (or has crashed) on an interview, the number of its ScoreEntries is the
\* number of successful submitAnswer calls made on it and at least the number
\* of its Answers with a non-null answer_text; there are more answered Answers
\* than ScoreEntries only while a call on the interview is, or crashed,
\* between its answer write and its score write.
AnswerScoreConsistency ==
    \A iid \in DOMAIN interviews :
        LET answered == Cardinality(AnsweredRows(iid))
            scored == Len(ScoresOf(iid))
        IN /\ OpenCalls(iid) = {}
                => /\ scored = Submitted(iid)
                   /\ scored >= answered
           /\ answered > scored => InWindow(iid) # {}

\* two calls served at the same time have both returned: two answered
\* Answers, two ScoreEntries
AnswerScoreWitness ==
    \E iid \in DOMAIN interviews :
        /\ OpenCalls(iid) = {}
        /\ Submitted(iid) = 2
        /\ Cardinality(AnsweredRows(iid)) = 2
        /\ Len(ScoresOf(iid)) = 2

\* C21: the interim result and the report agree.  A getResult answer carries
\* the sums of the interview's ScoreEntries taken directly, as generateReport
\* takes them, and their percent; a generateReport that succeeds appends one
\* Report whose overall_score is the percent getResult computes from the
\* per-skill groups of the same entries, and changes no Interview, Answer or
\* ScoreEntry; one that fails changes nothing.
ResultAgreesWithReport ==
    [][/\ Succeeded(last', "result")
            => LET rows == ScoresOf(last'.interview_id)
                   obtained == SumScores(rows, "score_obtained")
                   total == SumScores(rows, "score_total")
               IN /\ last'.body.overall_obtained = obtained
                  /\ last'.body.overall_total = total
                  /\ last'.body.overall_pct = Percent(obtained, total)
                  /\ db' = db
       /\ Succeeded(last', "report")
            => LET agg == Aggregate(ScoresOf(last'.interview_id))
               IN /\ Len(reports') = Len(reports) + 1
                  /\ SubSeq(reports', 1, Len(reports)) = reports
                  /\ reports'[Len(reports')].interview_id = last'.interview_id
                  /\ reports'[Len(reports')].overall_score = agg.overall_pct
                  /\ agg.overall_pct
                        = Percent(agg.overall_obtained, agg.overall_total)
                  /\ <<interviews, answers, scores>>'
                        = <<interviews, answers, scores>>
       /\ (last'.op = "report" /\ last'.status # "ok") => db' = db]_vars

\* a report of an interview with an entry for each of two skills, obtained 6
\* of a total of 6
ResultAgreesWitness ==
    /\ Succeeded(last, "report")
    /\ LET rows == ScoresOf(last.interview_id)
       IN /\ Len(rows) = 2
          /\ rows[1].skill # rows[2].skill
          /\ reports[Len(reports)].overall_score = [num |-> 100, den |-> 1]
          /\ Aggregate(rows).overall_total = 6

====
